---- MODULE Spec2Model ----
(***************************************************************************)
(* Model of the market service (src/market_service/main.go, src/utils.go): *)
(* an HTTP server with three handlers, /health, /stocks and /check-alert,  *)
(* each of which reads the API key from the environment, issues one GET to *)
(* the upstream provider and writes one response.  net/http runs every     *)
(* request on a goroutine of its own, so a handler is two steps: the part  *)
(* before http.Get returns, and the part after it.                         *)
(***************************************************************************)
EXTENDS Integers, Sequences, FiniteSets, TLC

\* ------------------------------------------------------------------ bounds

\* Longest price series the upstream provider returns.
MaxPoints == 2
\* Longest quote array the upstream provider returns.
MaxQuotes == 1

\* Goroutines serving requests at the same time.
Workers == {"w1", "w2"}

\* ------------------------------------------------------- program constants

StatusOK == 200
StatusBadRequest == 400
StatusInternalServerError == 500
StatusBadGateway == 502

TextPlain == "text/plain; charset=utf-8"
ApplicationJSON == "application/json"

\* ------------------------------------------------------------------ inputs

\* Values of the TIINGO_API_KEY environment variable ("" when unset).
ApiKeys == {"", "secret"}
Tickers == {"", "AAPL"}
StartDates == {"", "2024-01-01"}
Intervals == {"", "daily"}
Directions == {"", "above", "below", "sideways"}
\* The price query parameter, as its characters.
PriceStrs == {<<>>, <<"x">>, <<"1", "x">>, <<"9", "5">>, <<"1", "0", "0">>}
\* Prices the upstream provider quotes.
Prices == {95, 100, 105}

\* ------------------------------------------------------------------- bodies

\* A response body is plain text, a JSON object (its key/value pairs in the
\* order written), a JSON array of price points, or the JSON literal null.
NoBody == [form |-> "none", text |-> "", object |-> <<>>, array |-> <<>>]
TextBody(s) == [form |-> "text", text |-> s, object |-> <<>>, array |-> <<>>]
ObjectBody(o) == [form |-> "object", text |-> "", object |-> o, array |-> <<>>]
ArrayBody(a) == [form |-> "array", text |-> "", object |-> <<>>, array |-> a]
NullBody == [form |-> "null", text |-> "", object |-> <<>>, array |-> <<>>]

Keys(o) == {o[i][1] : i \in 1..Len(o)}

\* ---------------------------------------------------------- ResponseWriter

\* header is the Content-Type header ("" when unset), status 0 means that
\* the header has not been written yet, writes counts the bodies written
\* and statusWrites the calls of WriteHeader (net/http logs the second one
\* as superfluous and keeps the first status).
NewResponseWriter ==
  [header |-> "", status |-> 0, body |-> NoBody, writes |-> 0, statusWrites |-> 0]

SetContentType(rw, v) == IF rw.status # 0 THEN rw ELSE [rw EXCEPT !.header = v]

WriteHeader(rw, code) ==
  IF rw.status # 0 THEN [rw EXCEPT !.statusWrites = @ + 1]
  ELSE [rw EXCEPT !.status = code, !.statusWrites = 1]

\* http.DetectContentType: none of the bodies of this service starts with a
\* signature of the sniffing table, so all of them are sniffed as text.
DetectContentType(b) == TextPlain

\* ResponseWriter.Write: an implicit WriteHeader(200), and a Content-Type
\* sniffed from the first bytes written when the handler has set none.
Write(rw, b) ==
  LET r1 == IF rw.status = 0 THEN WriteHeader(rw, StatusOK) ELSE rw
      r2 == IF r1.writes = 0 /\ r1.header = ""
              THEN [r1 EXCEPT !.header = DetectContentType(b)] ELSE r1
  IN  [r2 EXCEPT !.body = IF r2.writes = 0 THEN b ELSE @, !.writes = @ + 1]

\* http.Error: replaces the Content-Type by text/plain, writes the status,
\* then the message.
HttpError(rw, b, code) ==
  Write(WriteHeader(SetContentType(rw, TextPlain), code), b)

\* json.NewEncoder(w).Encode(v)
Encode(rw, b) == Write(rw, b)

\* RespondIfError of utils.go; no handler calls it.
RespondIfError(condition, rw, message, statusCode) ==
  IF ~condition THEN rw
  ELSE Encode(WriteHeader(SetContentType(rw, ApplicationJSON), statusCode),
              ObjectBody(<< <<"detail", message>> >>))

\* ------------------------------------------------------------------- state

VARIABLES
  apiKey,   \* the TIINGO_API_KEY environment variable
  pc,       \* per worker: "idle", "waiting", "replied", "done"
  req,      \* per worker: the request being handled
  call,     \* per worker: the upstream GET issued for the request
  reply,    \* per worker: what http.Get returned
  locals,   \* per worker: the handler's price and currentPrice
  calls,    \* per worker: the upstream GETs issued for the request
  resp      \* per worker: the ResponseWriter

vars == <<apiKey, pc, req, call, reply, locals, calls, resp>>

NoReq == [handler |-> "", ticker |-> "", startDate |-> "", interval |-> "",
          priceStr |-> <<>>, direction |-> ""]
NoCall == [path |-> "", ticker |-> "", token |-> ""]
NoReply == [err |-> "", status |-> 0, isArray |-> FALSE,
            prices |-> <<>>, quotes |-> <<>>]
NoLocals == [price |-> 0, currentPrice |-> 0]

Init ==
  /\ apiKey \in ApiKeys
  /\ pc = [w \in Workers |-> "idle"]
  /\ req = [w \in Workers |-> NoReq]
  /\ call = [w \in Workers |-> NoCall]
  /\ reply = [w \in Workers |-> NoReply]
  /\ locals = [w \in Workers |-> NoLocals]
  /\ calls = [w \in Workers |-> 0]
  /\ resp = [w \in Workers |-> NewResponseWriter]

\* Mutant of KeyMissing: the key check is left out.
KeyMissingNever(k) == FALSE

\* os.Getenv("TIINGO_API_KEY") == ""
KeyMissing(k) == k = ""

\* err != nil || resp.StatusCode != 200
FetchFailed(r) == r.err # "" \/ r.status # StatusOK

\* ------------------------------------------------------------------ /health

\* Mutant of Health: the handler unsets the key once it has read it.
HealthUnsetsKey(w) ==
  /\ pc[w] = "idle"
  /\ req' = [req EXCEPT ![w] = [NoReq EXCEPT !.handler = "health"]]
  /\ IF KeyMissing(apiKey)
       THEN /\ resp' = [resp EXCEPT ![w] =
                 HttpError(NewResponseWriter, TextBody("missing API key"),
                           StatusInternalServerError)]
            /\ pc' = [pc EXCEPT ![w] = "done"]
            /\ UNCHANGED <<call, calls>>
       ELSE /\ call' = [call EXCEPT ![w] =
                 [path |-> "daily", ticker |-> "SPY", token |-> apiKey]]
            /\ pc' = [pc EXCEPT ![w] = "waiting"]
            /\ calls' = [calls EXCEPT ![w] = @ + 1]
            /\ resp' = [resp EXCEPT ![w] = NewResponseWriter]
  /\ apiKey' = ""
  /\ UNCHANGED <<reply, locals>>

\* The handler up to http.Get.
Health(w) ==
  /\ pc[w] = "idle"
  /\ req' = [req EXCEPT ![w] = [NoReq EXCEPT !.handler = "health"]]
  /\ IF KeyMissing(apiKey)
       THEN /\ resp' = [resp EXCEPT ![w] =
                 HttpError(NewResponseWriter, TextBody("missing API key"),
                           StatusInternalServerError)]
            /\ pc' = [pc EXCEPT ![w] = "done"]
            /\ UNCHANGED <<call, calls>>
       ELSE /\ call' = [call EXCEPT ![w] =
                 [path |-> "daily", ticker |-> "SPY", token |-> apiKey]]
            /\ pc' = [pc EXCEPT ![w] = "waiting"]
            /\ calls' = [calls EXCEPT ![w] = @ + 1]
            /\ resp' = [resp EXCEPT ![w] = NewResponseWriter]
  /\ UNCHANGED <<apiKey, reply, locals>>

\* Mutant of HealthReturn: the return after http.Error is missing.
HealthReturnFallsThrough(w) ==
  /\ pc[w] = "replied"
  /\ req[w].handler = "health"
  /\ LET rw == IF FetchFailed(reply[w])
                 THEN HttpError(resp[w], TextBody("error fetching from Tiingo"),
                                StatusBadGateway)
                 ELSE resp[w]
     IN  resp' = [resp EXCEPT ![w] =
           Write(WriteHeader(rw, StatusOK),
                 ObjectBody(<< <<"health", "true">> >>))]
  /\ pc' = [pc EXCEPT ![w] = "done"]
  /\ UNCHANGED <<apiKey, req, call, reply, locals, calls>>

\* The handler once http.Get has returned.
HealthReturn(w) ==
  /\ pc[w] = "replied"
  /\ req[w].handler = "health"
  /\ resp' = [resp EXCEPT ![w] =
       IF FetchFailed(reply[w])
         THEN HttpError(resp[w], TextBody("error fetching from Tiingo"),
                        StatusBadGateway)
         ELSE Write(WriteHeader(resp[w], StatusOK),
                    ObjectBody(<< <<"health", "true">> >>))]
  /\ pc' = [pc EXCEPT ![w] = "done"]
  /\ UNCHANGED <<apiKey, req, call, reply, locals, calls>>

\* ------------------------------------------------------------------ /stocks

\* Mutant of StocksMissing: && for ||.
StocksMissingAll(ticker, startDate, resampleFreq) ==
  ticker = "" /\ startDate = "" /\ resampleFreq = ""

\* ticker == "" || startDate == "" || resampleFreq == ""
StocksMissing(ticker, startDate, resampleFreq) ==
  ticker = "" \/ startDate = "" \/ resampleFreq = ""

\* Mutant of DecodePrices: the series comes out newest first.
DecodePricesReversed(r) ==
  IF r.isArray
    THEN [isNil |-> FALSE,
          items |-> [i \in 1..Len(r.prices) |->
                       [Date |-> r.prices[Len(r.prices) + 1 - i].date,
                        Close |-> r.prices[Len(r.prices) + 1 - i].close]]]
    ELSE [isNil |-> TRUE, items |-> <<>>]

\* json.Unmarshal(body, &tiingoPrices): a slice that stays nil unless the
\* body is a JSON array; each element keeps the fields PricePoint declares.
DecodePrices(r) ==
  IF r.isArray
    THEN [isNil |-> FALSE,
          items |-> [i \in 1..Len(r.prices) |->
                       [Date |-> r.prices[i].date, Close |-> r.prices[i].close]]]
    ELSE [isNil |-> TRUE, items |-> <<>>]

\* json.NewEncoder(w).Encode(tiingoPrices): null for a nil slice, else one
\* {"date", "close"} object per element.
EncodePrices(s) ==
  IF s.isNil THEN NullBody
  ELSE ArrayBody([i \in 1..Len(s.items) |->
                    [date |-> s.items[i].Date, close |-> s.items[i].Close]])

\* The handler up to http.Get.
Stocks(w) ==
  /\ pc[w] = "idle"
  /\ \E ticker \in Tickers, startDate \in StartDates, resampleFreq \in Intervals :
       /\ req' = [req EXCEPT ![w] =
            [NoReq EXCEPT !.handler = "stocks", !.ticker = ticker,
                          !.startDate = startDate, !.interval = resampleFreq]]
       /\ IF StocksMissing(ticker, startDate, resampleFreq)
            THEN /\ resp' = [resp EXCEPT ![w] =
                      HttpError(NewResponseWriter,
                                TextBody("missing query parameter"),
                                StatusBadRequest)]
                 /\ pc' = [pc EXCEPT ![w] = "done"]
                 /\ UNCHANGED <<call, calls>>
            ELSE IF KeyMissing(apiKey)
            THEN /\ resp' = [resp EXCEPT ![w] =
                      HttpError(NewResponseWriter, TextBody("missing API key"),
                                StatusInternalServerError)]
                 /\ pc' = [pc EXCEPT ![w] = "done"]
                 /\ UNCHANGED <<call, calls>>
            ELSE /\ call' = [call EXCEPT ![w] =
                      [path |-> "daily", ticker |-> ticker, token |-> apiKey]]
                 /\ pc' = [pc EXCEPT ![w] = "waiting"]
                 /\ calls' = [calls EXCEPT ![w] = @ + 1]
                 /\ resp' = [resp EXCEPT ![w] = NewResponseWriter]
  /\ UNCHANGED <<apiKey, reply, locals>>

\* Mutant of StocksReturn: a failed fetch is tried once more.
StocksReturnRetries(w) ==
  /\ pc[w] = "replied"
  /\ req[w].handler = "stocks"
  /\ IF FetchFailed(reply[w]) /\ calls[w] < 2
       THEN /\ pc' = [pc EXCEPT ![w] = "waiting"]
            /\ calls' = [calls EXCEPT ![w] = @ + 1]
            /\ UNCHANGED resp
       ELSE /\ resp' = [resp EXCEPT ![w] =
                 IF FetchFailed(reply[w])
                   THEN HttpError(resp[w], TextBody("error fetching from Tiingo"),
                                  StatusBadGateway)
                   ELSE Encode(SetContentType(resp[w], ApplicationJSON),
                               EncodePrices(DecodePrices(reply[w])))]
            /\ pc' = [pc EXCEPT ![w] = "done"]
            /\ UNCHANGED calls
  /\ UNCHANGED <<apiKey, req, call, reply, locals>>

\* The handler once http.Get has returned.
StocksReturn(w) ==
  /\ pc[w] = "replied"
  /\ req[w].handler = "stocks"
  /\ resp' = [resp EXCEPT ![w] =
       IF FetchFailed(reply[w])
         THEN HttpError(resp[w], TextBody("error fetching from Tiingo"),
                        StatusBadGateway)
         ELSE Encode(SetContentType(resp[w], ApplicationJSON),
                     EncodePrices(DecodePrices(reply[w])))]
  /\ pc' = [pc EXCEPT ![w] = "done"]
  /\ UNCHANGED <<apiKey, req, call, reply, locals, calls>>

\* ------------------------------------------------------------- /check-alert

\* ticker == "" || priceStr == "" || direction == ""
CheckAlertMissing(ticker, priceStr, direction) ==
  ticker = "" \/ Len(priceStr) = 0 \/ direction = ""

IsDigit(c) == c \in {"0", "1", "2", "3", "4", "5", "6", "7", "8", "9"}

DigitVal(c) ==
  CASE c = "0" -> 0 [] c = "1" -> 1 [] c = "2" -> 2 [] c = "3" -> 3
    [] c = "4" -> 4 [] c = "5" -> 5 [] c = "6" -> 6 [] c = "7" -> 7
    [] c = "8" -> 8 [] c = "9" -> 9

RECURSIVE DigitsVal(_)
DigitsVal(s) ==
  IF Len(s) = 0 THEN 0
  ELSE 10 * DigitsVal(SubSeq(s, 1, Len(s) - 1)) + DigitVal(s[Len(s)])

\* strconv.ParseFloat(priceStr, 64) on the decimal integers: an optional
\* sign and at least one digit; anything else is a syntax error.
ParseFloat(s) ==
  LET signed == Len(s) > 0 /\ s[1] \in {"+", "-"}
      digits == IF signed THEN SubSeq(s, 2, Len(s)) ELSE s
      ok     == Len(digits) > 0 /\ \A i \in 1..Len(digits) : IsDigit(digits[i])
  IN  IF ~ok THEN [err |-> TRUE, val |-> 0]
      ELSE [err |-> FALSE,
            val |-> IF signed /\ s[1] = "-" THEN 0 - DigitsVal(digits)
                    ELSE DigitsVal(digits)]

\* json.Unmarshal(body, &result): a slice that stays nil unless the body is
\* a JSON array; Last is a nil pointer when "last" is null or absent.
DecodeQuotes(r) ==
  IF r.isArray
    THEN [i \in 1..Len(r.quotes) |->
            [LastNil |-> r.quotes[i].lastNull, Last |-> r.quotes[i].last,
             PrevClose |-> r.quotes[i].prevClose]]
    ELSE <<>>

\* Mutant of CurrentPrice: the nil test is inverted.
CurrentPriceInverted(q) == IF q.LastNil THEN q.Last ELSE q.PrevClose

\* Use last price if it exists, previous close otherwise.
CurrentPrice(q) == IF ~q.LastNil THEN q.Last ELSE q.PrevClose

\* Mutant of AlreadyTriggered: <= and >= for < and >.
AlreadyTriggeredInclusive(direction, currentPrice, price) ==
  \/ direction = "below" /\ currentPrice <= price
  \/ direction = "above" /\ currentPrice >= price

\* (direction == "below" && currentPrice < price) ||
\* (direction == "above" && currentPrice > price)
AlreadyTriggered(direction, currentPrice, price) ==
  \/ direction = "below" /\ currentPrice < price
  \/ direction = "above" /\ currentPrice > price

\* %.2f of a whole number of dollars.
Fmt2f(n) == ToString(n) \o ".00"

\* fmt.Sprintf("Current price is $%.2f, already %s $%.2f.", ...)
TriggeredMsg(currentPrice, direction, price) ==
  "Current price is $" \o Fmt2f(currentPrice) \o ", already " \o direction
    \o " $" \o Fmt2f(price) \o "."

\* The handler up to http.Get.
CheckAlert(w) ==
  /\ pc[w] = "idle"
  /\ \E ticker \in Tickers, priceStr \in PriceStrs, direction \in Directions :
       LET parsed == ParseFloat(priceStr) IN
       /\ req' = [req EXCEPT ![w] =
            [NoReq EXCEPT !.handler = "check-alert", !.ticker = ticker,
                          !.priceStr = priceStr, !.direction = direction]]
       /\ IF CheckAlertMissing(ticker, priceStr, direction)
            THEN /\ resp' = [resp EXCEPT ![w] =
                      HttpError(NewResponseWriter,
                                TextBody("missing query parameter"),
                                StatusBadRequest)]
                 /\ pc' = [pc EXCEPT ![w] = "done"]
                 /\ UNCHANGED <<call, calls, locals>>
            ELSE IF parsed.err
            THEN /\ resp' = [resp EXCEPT ![w] =
                      HttpError(NewResponseWriter, TextBody("invalid price"),
                                StatusBadRequest)]
                 /\ pc' = [pc EXCEPT ![w] = "done"]
                 /\ UNCHANGED <<call, calls, locals>>
            ELSE IF KeyMissing(apiKey)
            THEN /\ resp' = [resp EXCEPT ![w] =
                      HttpError(NewResponseWriter, TextBody("missing API key"),
                                StatusInternalServerError)]
                 /\ pc' = [pc EXCEPT ![w] = "done"]
                 /\ locals' = [locals EXCEPT ![w].price = parsed.val]
                 /\ UNCHANGED <<call, calls>>
            ELSE /\ call' = [call EXCEPT ![w] =
                      [path |-> "iex", ticker |-> ticker, token |-> apiKey]]
                 /\ pc' = [pc EXCEPT ![w] = "waiting"]
                 /\ calls' = [calls EXCEPT ![w] = @ + 1]
                 /\ locals' = [locals EXCEPT ![w].price = parsed.val]
                 /\ resp' = [resp EXCEPT ![w] = NewResponseWriter]
  /\ UNCHANGED <<apiKey, reply>>

\* Mutant of CheckAlertReturn: price is a package-level variable, so the
\* handler compares against the price of any request that has parsed one.
CheckAlertReturnSharedPrice(w) ==
  /\ pc[w] = "replied"
  /\ req[w].handler = "check-alert"
  /\ \E v \in {u \in Workers : call[u].path = "iex"} :
     LET result == DecodeQuotes(reply[w])
         price == locals[v].price
         direction == req[w].direction
     IN
     IF FetchFailed(reply[w])
       THEN /\ resp' = [resp EXCEPT ![w] =
                 HttpError(resp[w],
                   ObjectBody(<< <<"valid", "false">>,
                     <<"message", "Ticker not found or data unavailable.">> >>),
                   StatusBadRequest)]
            /\ UNCHANGED locals
       ELSE IF Len(result) = 0
       THEN /\ resp' = [resp EXCEPT ![w] =
                 HttpError(resp[w],
                   ObjectBody(<< <<"valid", "false">>,
                                 <<"message", "Ticker not found.">> >>),
                   StatusBadRequest)]
            /\ UNCHANGED locals
       ELSE LET currentPrice == CurrentPrice(result[1])
                rw == SetContentType(resp[w], ApplicationJSON)
            IN
            /\ locals' = [locals EXCEPT ![w].currentPrice = currentPrice]
            /\ resp' = [resp EXCEPT ![w] =
                 IF AlreadyTriggered(direction, currentPrice, price)
                   THEN HttpError(rw,
                          ObjectBody(<< <<"message",
                            TriggeredMsg(currentPrice, direction, price)>> >>),
                          StatusBadRequest)
                   ELSE Encode(rw, ObjectBody(<< <<"message", "Valid alert.">>,
                                                 <<"valid", "true">> >>))]
  /\ pc' = [pc EXCEPT ![w] = "done"]
  /\ UNCHANGED <<apiKey, req, call, reply, calls>>

\* The handler once http.Get has returned.  The err of line 168 is the one
\* http.Get returned, nil here, so that branch is never taken.
CheckAlertReturn(w) ==
  /\ pc[w] = "replied"
  /\ req[w].handler = "check-alert"
  /\ LET result == DecodeQuotes(reply[w])
         price == locals[w].price
         direction == req[w].direction
     IN
     IF FetchFailed(reply[w])
       THEN /\ resp' = [resp EXCEPT ![w] =
                 HttpError(resp[w],
                   ObjectBody(<< <<"valid", "false">>,
                     <<"message", "Ticker not found or data unavailable.">> >>),
                   StatusBadRequest)]
            /\ UNCHANGED locals
       ELSE IF Len(result) = 0
       THEN /\ resp' = [resp EXCEPT ![w] =
                 HttpError(resp[w],
                   ObjectBody(<< <<"valid", "false">>,
                                 <<"message", "Ticker not found.">> >>),
                   StatusBadRequest)]
            /\ UNCHANGED locals
       ELSE LET currentPrice == CurrentPrice(result[1])
                rw == SetContentType(resp[w], ApplicationJSON)
            IN
            /\ locals' = [locals EXCEPT ![w].currentPrice = currentPrice]
            /\ resp' = [resp EXCEPT ![w] =
                 IF AlreadyTriggered(direction, currentPrice, price)
                   THEN HttpError(rw,
                          ObjectBody(<< <<"message",
                            TriggeredMsg(currentPrice, direction, price)>> >>),
                          StatusBadRequest)
                   ELSE Encode(rw, ObjectBody(<< <<"message", "Valid alert.">>,
                                                 <<"valid", "true">> >>))]
  /\ pc' = [pc EXCEPT ![w] = "done"]
  /\ UNCHANGED <<apiKey, req, call, reply, calls>>

\* ---------------------------------------------------------------- upstream

\* Price points of the daily endpoint, with a field PricePoint leaves out.
UpstreamPoints ==
  {[date |-> "2024-01-02", close |-> 95, volume |-> 1000],
   [date |-> "2024-01-03", close |-> 105, volume |-> 1000]}

\* Quotes of the iex endpoint: last is null while the market is closed.
UpstreamQuotes ==
  {[lastNull |-> TRUE, last |-> 0, prevClose |-> p] : p \in Prices}
    \cup {[lastNull |-> FALSE, last |-> l, prevClose |-> 200 - l] : l \in Prices}

SeqsUpTo(S, n) == UNION {[1..k -> S] : k \in 0..n}

\* Statuses other than 200 the provider answers with.
ErrorStatuses == {404}

\* What http.Get returns for a call to `path`: an error (a timeout or
\* another network failure), a status other than 200, or 200 with a body
\* that is a JSON array of the endpoint's elements or is no array at all.
Replies(path) ==
  {[NoReply EXCEPT !.err = e] : e \in {"timeout", "network"}}
    \cup {[NoReply EXCEPT !.status = s] : s \in ErrorStatuses}
    \cup {[NoReply EXCEPT !.status = StatusOK]}
    \cup (IF path = "daily"
            THEN {[NoReply EXCEPT !.status = StatusOK, !.isArray = TRUE,
                                  !.prices = a] : a \in SeqsUpTo(UpstreamPoints, MaxPoints)}
            ELSE {[NoReply EXCEPT !.status = StatusOK, !.isArray = TRUE,
                                  !.quotes = a] : a \in SeqsUpTo(UpstreamQuotes, MaxQuotes)})

\* http.Get returns.
UpstreamAnswer(w) ==
  /\ pc[w] = "waiting"
  /\ \E r \in Replies(call[w].path) : reply' = [reply EXCEPT ![w] = r]
  /\ pc' = [pc EXCEPT ![w] = "replied"]
  /\ UNCHANGED <<apiKey, req, call, locals, calls, resp>>

\* The handler has returned: the server sends the response and the
\* goroutine takes the next request.
Deliver(w) ==
  /\ pc[w] = "done"
  /\ pc' = [pc EXCEPT ![w] = "idle"]
  /\ req' = [req EXCEPT ![w] = NoReq]
  /\ call' = [call EXCEPT ![w] = NoCall]
  /\ calls' = [calls EXCEPT ![w] = 0]
  /\ reply' = [reply EXCEPT ![w] = NoReply]
  /\ locals' = [locals EXCEPT ![w] = NoLocals]
  /\ resp' = [resp EXCEPT ![w] = NewResponseWriter]
  /\ UNCHANGED apiKey

Next ==
  \E w \in Workers :
    \/ Health(w)
    \/ HealthReturn(w)
    \/ Stocks(w)
    \/ StocksReturn(w)
    \/ CheckAlert(w)
    \/ CheckAlertReturn(w)
    \/ UpstreamAnswer(w)
    \/ Deliver(w)

Spec == Init /\ [][Next]_vars

\* The Go scheduler runs every goroutine that can run, so a handler whose
\* http.Get has returned goes on to write its response, and the server
\* sends it.  Nothing makes a client send a request, and nothing makes
\* http.Get return: it is called on http.DefaultClient, whose Timeout is
\* zero (no timeout), and the server is started with no timeout either.
Fairness ==
  \A w \in Workers :
    /\ WF_vars(HealthReturn(w))
    /\ WF_vars(StocksReturn(w))
    /\ WF_vars(CheckAlertReturn(w))
    /\ WF_vars(Deliver(w))

FairSpec == Spec /\ Fairness

\* ------------------------------------------------------------------ claims

Done(w) == pc[w] = "done"

\* The request of worker w got past input validation, the key check and the
\* upstream call, and the decoded quote array is not empty.
ReachedDecision(w) ==
  /\ Done(w)
  /\ req[w].handler = "check-alert"
  /\ req[w].ticker # "" /\ Len(req[w].priceStr) > 0 /\ req[w].direction # ""
  /\ ~ParseFloat(req[w].priceStr).err
  /\ apiKey # ""
  /\ reply[w].err = "" /\ reply[w].status = 200
  /\ reply[w].isArray /\ Len(reply[w].quotes) > 0

Pairs(o) == {o[i] : i \in 1..Len(o)}

\* {"valid": true, "message": "Valid alert."} with status 200
IsValidAlert(rw) ==
  /\ rw.status = 200
  /\ rw.body.form = "object"
  /\ Pairs(rw.body.object) = {<<"valid", "true">>, <<"message", "Valid alert.">>}

\* the already-triggered error with status 400
IsTriggeredError(rw) ==
  /\ rw.status = 400
  /\ rw.body.form = "object"
  /\ Keys(rw.body.object) = {"message"}

\* C1: a /check-alert request that reaches the decision step is answered
\* with the already-triggered error, status 400, exactly when direction is
\* "above" and currentPrice > target or direction is "below" and
\* currentPrice < target; in every other case (equal prices, any other
\* direction) it is answered with the valid-alert body.
C1_DecisionRule ==
  \A w \in Workers :
    ReachedDecision(w) =>
      LET cur == locals[w].currentPrice
          target == locals[w].price
          dir == req[w].direction
          triggered == \/ dir = "above" /\ cur > target
                       \/ dir = "below" /\ cur < target
      IN  /\ IsTriggeredError(resp[w]) <=> triggered
          /\ ~triggered => IsValidAlert(resp[w])

\* Both outcomes at once: one request already triggered, another with the
\* current price equal to the target and answered as valid.
C1_Witness ==
  \E w1, w2 \in Workers :
    /\ ReachedDecision(w1) /\ req[w1].direction = "below"
    /\ locals[w1].currentPrice < locals[w1].price
    /\ resp[w1].status = 400
    /\ ReachedDecision(w2) /\ req[w2].direction = "above"
    /\ locals[w2].currentPrice = locals[w2].price
    /\ resp[w2].status = 200

\* C2: the price compared against the target is `last` of the first quote
\* when it is present and `prevClose` of that quote when it is null, so the
\* response is the already-triggered error exactly when that price is past
\* the target; last = null, prevClose = 95, target 100, "above" is valid and
\* last = 105, target 100, "above" is the 400 error.
C2_CurrentPrice ==
  \A w \in Workers :
    ReachedDecision(w) =>
      LET q == reply[w].quotes[1]
          quoted == IF q.lastNull THEN q.prevClose ELSE q.last
          target == ParseFloat(req[w].priceStr).val
          dir == req[w].direction
      IN  /\ locals[w].currentPrice = quoted
          /\ IsTriggeredError(resp[w]) <=>
               \/ dir = "above" /\ quoted > target
               \/ dir = "below" /\ quoted < target
          /\ q.lastNull /\ q.prevClose = 95 /\ target = 100 /\ dir = "above"
               => IsValidAlert(resp[w])
          /\ ~q.lastNull /\ q.last = 105 /\ target = 100 /\ dir = "above"
               => IsTriggeredError(resp[w])

\* The two examples at once: a live price of 105 over a previous close of
\* 95, and a closed market with a previous close of 95.
C2_Witness ==
  \E w1, w2 \in Workers :
    /\ ReachedDecision(w1) /\ req[w1].direction = "above"
    /\ ~reply[w1].quotes[1].lastNull /\ reply[w1].quotes[1].last = 105
    /\ reply[w1].quotes[1].prevClose = 95
    /\ IsTriggeredError(resp[w1])
    /\ ReachedDecision(w2) /\ req[w2].direction = "above"
    /\ reply[w2].quotes[1].lastNull /\ reply[w2].quotes[1].prevClose = 95
    /\ IsValidAlert(resp[w2])

EmptyResult(w) ==
  /\ Done(w)
  /\ call[w].path # ""
  /\ reply[w].err = "" /\ reply[w].status = 200 /\ reply[w].isArray
  /\ Len(reply[w].prices) = 0 /\ Len(reply[w].quotes) = 0

\* C4: when the upstream call succeeds with an empty array, /stocks and
\* /check-alert answer with status 404.
C4_EmptyIsNotFound ==
  \A w \in Workers :
    EmptyResult(w) /\ req[w].handler \in {"stocks", "check-alert"}
      => resp[w].status = 404

\* The upstream call of worker w failed without a timeout: a network error
\* or a status other than 200.
UpstreamUnreachable(w) ==
  /\ Done(w)
  /\ call[w].path # ""
  /\ \/ reply[w].err = "network"
     \/ reply[w].err = "" /\ reply[w].status # 200

\* C5: every handler answers a non-timeout network failure and a non-200
\* upstream status with 502, and /health answers {"health": true} only
\* when the upstream answered 200.
C5_UnreachableIsBadGateway ==
  \A w \in Workers :
    /\ UpstreamUnreachable(w) => resp[w].status = 502
    /\ ( /\ Done(w) /\ req[w].handler = "health"
         /\ resp[w].body = ObjectBody(<< <<"health", "true">> >>) )
         => reply[w].err = "" /\ reply[w].status = 200

\* C6: every handler answers an upstream timeout with status 504.
C6_TimeoutIsGatewayTimeout ==
  \A w \in Workers :
    Done(w) /\ call[w].path # "" /\ reply[w].err = "timeout"
      => resp[w].status = 504

\* C7: with no API key configured no handler answers with success: /health
\* answers 500, and /stocks and /check-alert answer 500 to every request
\* that passes input validation.
C7_MissingKey ==
  \A w \in Workers :
    Done(w) /\ apiKey = "" =>
      /\ resp[w].status # 200
      /\ req[w].handler = "health" => resp[w].status = 500
      /\ ( /\ req[w].handler = "stocks"
           /\ req[w].ticker # "" /\ req[w].startDate # ""
           /\ req[w].interval # "" )
           => resp[w].status = 500
      /\ ( /\ req[w].handler = "check-alert"
           /\ req[w].ticker # "" /\ req[w].direction # ""
           /\ req[w].priceStr \in {<<"9", "5">>, <<"1", "0", "0">>} )
           => resp[w].status = 500

\* No key: a /health request and a well-formed /check-alert request, both
\* answered with 500.
C7_Witness ==
  \E w1, w2 \in Workers :
    /\ apiKey = ""
    /\ Done(w1) /\ req[w1].handler = "health" /\ resp[w1].status = 500
    /\ Done(w2) /\ req[w2].handler = "check-alert"
    /\ req[w2].ticker # "" /\ req[w2].direction = "above"
    /\ req[w2].priceStr = <<"1", "0", "0">>
    /\ resp[w2].status = 500

\* C8: the body of every failure response is a JSON object with the single
\* key "detail".
C8_ErrorBodyShape ==
  \A w \in Workers :
    Done(w) /\ resp[w].status # 200 =>
      /\ resp[w].body.form = "object"
      /\ Keys(resp[w].body.object) = {"detail"}

\* C9: every response carries Content-Type: application/json.
C9_ContentType ==
  \A w \in Workers : Done(w) => resp[w].header = ApplicationJSON

\* C10: a /stocks success response whose upstream body was an array is a
\* bare array with one {date, close} object per upstream point, in the
\* upstream order, each with the upstream date and close.
C10_RoundTrip ==
  \A w \in Workers :
    ( /\ Done(w) /\ req[w].handler = "stocks"
      /\ resp[w].status = 200 /\ reply[w].isArray )
      => /\ resp[w].body.form = "array"
         /\ Len(resp[w].body.array) = Len(reply[w].prices)
         /\ \A i \in 1..Len(reply[w].prices) :
              /\ DOMAIN resp[w].body.array[i] = {"date", "close"}
              /\ resp[w].body.array[i].date = reply[w].prices[i].date
              /\ resp[w].body.array[i].close = reply[w].prices[i].close

\* A series that is out of date order, and one that repeats a point.
C10_Witness ==
  \E w1, w2 \in Workers :
    /\ Done(w1) /\ req[w1].handler = "stocks" /\ resp[w1].status = 200
    /\ Len(reply[w1].prices) = 2
    /\ reply[w1].prices[1].date = "2024-01-03"
    /\ reply[w1].prices[2].date = "2024-01-02"
    /\ Len(resp[w1].body.array) = 2
    /\ Done(w2) /\ req[w2].handler = "stocks" /\ resp[w2].status = 200
    /\ Len(reply[w2].prices) = 2
    /\ reply[w2].prices[1] = reply[w2].prices[2]
    /\ Len(resp[w2].body.array) = 2

\* Two requests that are the same, answered from the same upstream data.
SameRequest(w1, w2) == Done(w1) /\ Done(w2) /\ req[w1] = req[w2]

\* C11: identical requests under the same key get the same treatment: both
\* go upstream or neither does, and when the upstream data is the same the
\* status and the body are the same; no step changes the API key, the one
\* piece of state a later request reads.
C11_Idempotent ==
  /\ [](\A w1, w2 \in Workers :
          SameRequest(w1, w2) =>
            /\ calls[w1] = calls[w2]
            /\ reply[w1] = reply[w2] =>
                 /\ resp[w1].status = resp[w2].status
                 /\ resp[w1].body = resp[w2].body
                 /\ resp[w1].header = resp[w2].header)
  /\ [][apiKey' = apiKey]_vars

\* The same /check-alert request answered twice from the same quote.
C11_Witness ==
  \E w1, w2 \in Workers :
    /\ w1 # w2
    /\ SameRequest(w1, w2)
    /\ req[w1].handler = "check-alert"
    /\ calls[w1] = 1 /\ calls[w2] = 1
    /\ reply[w1] = reply[w2]
    /\ Len(reply[w1].quotes) = 1
    /\ resp[w1] = resp[w2]
    /\ resp[w1].status = 400
    /\ Keys(resp[w1].body.object) = {"message"}

\* The success body of each handler: {"health": true}, the price array (null
\* for a nil slice), the valid-alert object.
IsSuccessBody(handler, b) ==
  \/ handler = "health" /\ b = ObjectBody(<< <<"health", "true">> >>)
  \/ handler = "stocks" /\ b.form \in {"array", "null"}
  \/ /\ handler = "check-alert" /\ b.form = "object"
     /\ Pairs(b.object) = {<<"valid", "true">>, <<"message", "Valid alert.">>}

\* C12: a handler that has returned has written one status and one body,
\* the success body of its route under 200 or one error message under an
\* error status; before it returns it has written nothing.
C12_OneResponse ==
  \A w \in Workers :
    /\ Done(w) =>
         /\ resp[w].statusWrites = 1 /\ resp[w].writes = 1
         /\ resp[w].status # 0
         /\ resp[w].status = 200 => IsSuccessBody(req[w].handler, resp[w].body)
         /\ resp[w].status # 200 =>
              /\ resp[w].body.form \in {"text", "object"}
              /\ ~IsSuccessBody(req[w].handler, resp[w].body)
    /\ ~Done(w) => resp[w] = NewResponseWriter

\* A /health request answered with the 502 error and a /check-alert request
\* answered with the already-triggered error, each written once.
C12_Witness ==
  \E w1, w2 \in Workers :
    /\ Done(w1) /\ req[w1].handler = "health" /\ resp[w1].status = 502
    /\ resp[w1].writes = 1 /\ resp[w1].statusWrites = 1
    /\ Done(w2) /\ req[w2].handler = "check-alert" /\ calls[w2] = 1
    /\ reply[w2].status = 200 /\ Len(reply[w2].quotes) = 1
    /\ resp[w2].status = 400
    /\ resp[w2].writes = 1 /\ resp[w2].statusWrites = 1

\* The request of worker w fails input validation.
InputError(w) ==
  \/ /\ req[w].handler = "stocks"
     /\ \/ req[w].ticker = ""
        \/ req[w].startDate = ""
        \/ req[w].interval = ""
  \/ /\ req[w].handler = "check-alert"
     /\ \/ req[w].ticker = ""
        \/ req[w].direction = ""
        \/ req[w].priceStr \notin {<<"9", "5">>, <<"1", "0", "0">>}

\* C13: a request issues at most one upstream GET, nothing is written to
\* the response before that GET has returned, and a request rejected for an
\* input error or for a missing API key issues no GET at all.
C13_NoRetry ==
  \A w \in Workers :
    /\ calls[w] <= 1
    /\ calls[w] = 1 /\ resp[w].writes > 0
         => reply[w].err # "" \/ reply[w].status # 0
    /\ pc[w] = "waiting" => resp[w].writes = 0 /\ resp[w].status = 0
    /\ Done(w) /\ (InputError(w) \/ apiKey = "")
         => /\ calls[w] = 0
            /\ call[w] = NoCall
            /\ resp[w].status \in {400, 500}

\* A /stocks request answered after its single GET failed, and a
\* /check-alert request with a non-numeric price answered without a GET.
C13_Witness ==
  \E w1, w2 \in Workers :
    /\ apiKey # ""
    /\ Done(w1) /\ req[w1].handler = "stocks"
    /\ reply[w1].err = "network" /\ calls[w1] = 1
    /\ resp[w1].status = 502
    /\ Done(w2) /\ req[w2].handler = "check-alert"
    /\ req[w2].ticker # "" /\ req[w2].direction # ""
    /\ req[w2].priceStr = <<"x">>
    /\ calls[w2] = 0 /\ resp[w2].status = 400

\* What a handler writes for request r when it runs on its own, with the
\* key `key` and the upstream reply `rep` (unused when no GET is issued).
AloneResponse(r, key, rep) ==
  LET rw == NewResponseWriter
      noKey == HttpError(rw, TextBody("missing API key"), 500)
      missing == HttpError(rw, TextBody("missing query parameter"), 400)
      badGateway == HttpError(rw, TextBody("error fetching from Tiingo"), 502)
      failed == rep.err # "" \/ rep.status # 200
  IN  CASE r.handler = "health" ->
             IF key = "" THEN noKey
             ELSE IF failed THEN badGateway
             ELSE [header |-> TextPlain, status |-> 200, writes |-> 1,
                   statusWrites |-> 1,
                   body |-> ObjectBody(<< <<"health", "true">> >>)]
        [] r.handler = "stocks" ->
             IF r.ticker = "" \/ r.startDate = "" \/ r.interval = "" THEN missing
             ELSE IF key = "" THEN noKey
             ELSE IF failed THEN badGateway
             ELSE [header |-> ApplicationJSON, status |-> 200, writes |-> 1,
                   statusWrites |-> 1,
                   body |-> IF rep.isArray
                              THEN ArrayBody([i \in 1..Len(rep.prices) |->
                                     [date |-> rep.prices[i].date,
                                      close |-> rep.prices[i].close]])
                              ELSE NullBody]
        [] r.handler = "check-alert" ->
             IF r.ticker = "" \/ Len(r.priceStr) = 0 \/ r.direction = ""
               THEN missing
             ELSE IF ParseFloat(r.priceStr).err
               THEN HttpError(rw, TextBody("invalid price"), 400)
             ELSE IF key = "" THEN noKey
             ELSE IF failed
               THEN HttpError(rw, ObjectBody(<< <<"valid", "false">>,
                      <<"message", "Ticker not found or data unavailable.">> >>),
                      400)
             ELSE IF ~rep.isArray \/ Len(rep.quotes) = 0
               THEN HttpError(rw, ObjectBody(<< <<"valid", "false">>,
                      <<"message", "Ticker not found.">> >>), 400)
             ELSE LET q == rep.quotes[1]
                      cur == IF q.lastNull THEN q.prevClose ELSE q.last
                      target == ParseFloat(r.priceStr).val
                  IN  IF \/ r.direction = "below" /\ cur < target
                         \/ r.direction = "above" /\ cur > target
                        THEN HttpError(rw, ObjectBody(<< <<"message",
                               TriggeredMsg(cur, r.direction, target)>> >>), 400)
                        ELSE [header |-> ApplicationJSON, status |-> 200,
                              writes |-> 1, statusWrites |-> 1,
                              body |-> ObjectBody(<< <<"message", "Valid alert.">>,
                                                     <<"valid", "true">> >>)]

\* A step is a step of one worker: it leaves the API key and everything
\* that belongs to the other workers as it was.
OwnStateOnly ==
  /\ apiKey' = apiKey
  /\ \E w \in Workers :
       \A v \in Workers \ {w} :
         /\ pc'[v] = pc[v] /\ req'[v] = req[v] /\ call'[v] = call[v]
         /\ reply'[v] = reply[v] /\ locals'[v] = locals[v]
         /\ calls'[v] = calls[v] /\ resp'[v] = resp[v]

\* C14: whatever the other workers do meanwhile, the response of a request
\* is the one it gets when handled alone, a function of its parameters, the
\* API key and its own upstream reply; and a step of one worker changes
\* neither the API key nor anything another worker holds.
C14_Isolation ==
  /\ [](\A w \in Workers :
          Done(w) => resp[w] = AloneResponse(req[w], apiKey, reply[w]))
  /\ [][OwnStateOnly]_vars

\* Two /check-alert requests in flight together against the same quote with
\* different targets, one answered as triggered and the other as valid.
C14_Witness ==
  \E w1, w2 \in Workers :
    /\ w1 # w2
    /\ ReachedDecision(w1) /\ ReachedDecision(w2)
    /\ req[w1].direction = "above" /\ req[w2].direction = "above"
    /\ reply[w1] = reply[w2]
    /\ locals[w1].price = 95 /\ locals[w2].price = 100
    /\ locals[w1].currentPrice = 100
    /\ resp[w1].status = 400 /\ resp[w2].status = 200

\* C15: the upstream call is bounded by a timeout, so a handler that waits
\* for the upstream provider ends with a response even if the provider
\* never answers.
C15_EventuallyResponds ==
  \A w \in Workers : (pc[w] = "waiting") ~> (pc[w] = "done")

====
